---- MODULE Spec2Model ----
(***************************************************************************)
(* State-machine model of backend/utils/email/outlook.py:                  *)
(* OutlookMailHandler.check_mail and OutlookMailHandler.fetch_emails.      *)
(* One pass is one call of check_mail (or one direct call of the public    *)
(* static method fetch_emails).  The IMAP server, the token endpoint, the  *)
(* store (db) and the caller's progress callback are the environment:      *)
(* every call into them nondeterministically returns or raises.            *)
(***************************************************************************)
EXTENDS Integers, Sequences, FiniteSets, TLC

VARIABLES
    entry,          \* which public method the caller invoked
    cbMayRaise,     \* whether the caller-supplied callback may raise
    acctLct,        \* the account's last check timestamp (MailAccount)
    lctArg,         \* fetch_emails: last_check_time after normalize_check_time
    pc,             \* position in check_mail / fetch_emails
    retry,          \* fetch_emails: loop variable of `for retry in range(max_retries)`
    aliasIdx,       \* fetch_emails: position in junk_aliases
    mail,           \* fetch_emails: the local `mail` (0 = unbound, else session number)
    sess,           \* the IMAP sessions opened and not yet asked to log out
    connects,       \* number of IMAP4_SSL(...) calls made in the pass
    inbox,          \* server: messages of INBOX in sequence-number order
    junk,           \* server: messages of the junk folder, with \Deleted flag
    junk_ids,       \* fetch_emails: mail_ids of the junk search (line 272)
    mail_ids,       \* fetch_emails: mail_ids of the inbox search (line 312-314)
    i,              \* fetch_emails: index of enumerate(mail_ids)
    mail_records,   \* fetch_emails: the list mail_records
    exitKind,       \* how the try block of the current attempt was left
    ret,            \* value returned by fetch_emails
    access_token,   \* check_mail: result of get_new_access_token
    tokenPersisted, \* store: update_email_token was called
    addLog,         \* store: add_mail_record calls, <<record index, outcome>>
    saved_count,    \* check_mail: saved_count
    checkTimeCalls, \* store: number of update_check_time calls
    result,         \* SyncResult returned by check_mail
    progFirst,      \* first percent delivered to the caller's callback (-1: none yet)
    progLast,       \* last percent delivered to the caller's callback
    progMono,       \* the delivered percents were non-decreasing so far
    searchCmd,      \* the inbox search command last sent to the server
    searchData,     \* what the inbox search of this attempt returned
    hist,           \* history of the pass (bookkeeping for the properties)
    msg,            \* _extract_rich_content: the parsed message it was handed
    xpc,            \* _extract_rich_content: position in the method
    partIdx,        \* _extract_rich_content: position in msg.walk()
    text_content,   \* _extract_rich_content: text_content
    html_content,   \* _extract_rich_content: html_content
    attachments,    \* _extract_rich_content: attachments
    final_content   \* _extract_rich_content: the value returned

vars == << entry, cbMayRaise, acctLct, lctArg, pc, retry, aliasIdx, mail, sess,
           connects, inbox, junk, junk_ids, mail_ids, i, mail_records, exitKind,
           ret, access_token, tokenPersisted, addLog, saved_count,
           checkTimeCalls, result, progFirst, progLast, progMono, searchCmd,
           searchData, hist, msg, xpc, partIdx, text_content, html_content,
           attachments, final_content >>

\* Python's None, for a string-valued variable
None == "None"

\* Python's None, for a timestamp
NoTime == [y |-> 0, mo |-> 0, d |-> 0]

\* before check_mail has returned its dict
NoResult == [success |-> FALSE, message |-> "None", total |-> -1, saved |-> -1]

\* before the inbox search of an attempt has returned OK
NoSearch == [ok |-> FALSE, msgs |-> << >>]

(***************************************************************************)
(* Bounds of the model.                                                    *)
(***************************************************************************)
\* number of messages on the server (inbox and junk folder) before the pass
MaxInit == 2

\* number of messages INBOX can hold: a COPY that would exceed it is refused
MaxInbox == 3

\* number of messages on the server before the pass, in the runs checked
\* for termination
FairMsgs == 1

(***************************************************************************)
(* Program constants.                                                      *)
(***************************************************************************)
\* max_retries = 3
MaxRetries == 3

\* mail_ids[-100:]
FetchCap == 100

\* junk_aliases = ['Junk Email', 'Junk', 'Spam', '垃圾邮件', 'junkemail']
JunkAliases == << "Junk Email", "Junk", "Spam", "LajiYoujian", "junkemail" >>


(***************************************************************************)
(* The messages that exist on the server.  A message is known by a number; *)
(* its headers and its server-side arrival date are functions of it.       *)
(* Messages 1 and 2 carry the same Subject, From and Date headers but      *)
(* different bodies; message 3 differs from both.                          *)
(***************************************************************************)
Msgs == 1 .. 3

Subject(m) == IF m <= 2 THEN "Hello" ELSE "Re: Hello"

Sender(m) == "a@x.org"

\* email.utils.parsedate_to_datetime(msg.get('Date', '')).isoformat()
ReceivedIso(m) == IF m <= 2 THEN "2024-01-02T09:00:00" ELSE "2024-01-03T09:00:00"

\* the server's arrival date of the message, which SINCE compares
InternalDate(m) ==
    IF m = 1 THEN [y |-> 2023, mo |-> 12, d |-> 31]
             ELSE [y |-> 2024, mo |-> 1, d |-> 2]

\* a last check timestamp, when there is one
CheckDate == [y |-> 2024, mo |-> 1, d |-> 1]

LctValues == {NoTime, CheckDate}

DateGE(a, b) ==
    \/ a.y > b.y
    \/ a.y = b.y /\ a.mo > b.mo
    \/ a.y = b.y /\ a.mo = b.mo /\ a.d >= b.d

(***************************************************************************)
(* Pure helpers.                                                           *)
(***************************************************************************)
\* normalize_check_time (backend/utils/email/common.py): None stays None
NormalizeCheckTime(t) == IF t = NoTime THEN NoTime ELSE [y |-> t.y, mo |-> t.mo, d |-> t.d]

MonthAbbr ==
    << "Jan", "Feb", "Mar", "Apr", "May", "Jun",
       "Jul", "Aug", "Sep", "Oct", "Nov", "Dec" >>

Pad2(n) == IF n < 10 THEN "0" \o ToString(n) ELSE ToString(n)

\* format_date_for_imap_search (backend/utils/email/common.py): day-Mon-year
FormatDateForImapSearch(t) ==
    Pad2(t.d) \o "-" \o MonthAbbr[t.mo] \o "-" \o ToString(t.y)

\* search_cmd of the inbox search
SearchCommand(lct) ==
    IF lct # NoTime
    THEN "(SINCE \"" \o FormatDateForImapSearch(lct) \o "\")"
    ELSE "ALL"

\* the last_check_time argument check_mail hands to fetch_emails: the call
\* passes four arguments, so the parameter keeps its default
CheckMailLastCheckTimeArg(accountLct) == NoTime

\* mail_key = f"{subject}|{sender}|{received_time.isoformat() if received_time else 'unknown'}"
MailKey(subject, sender, received) ==
    subject \o "|" \o sender \o "|" \o (IF received # None THEN received ELSE "unknown")

KeyOf(m) == MailKey(Subject(m), Sender(m), ReceivedIso(m))

\* the membership test left out: every message is appended
IsDuplicate_Never(key, records) == FALSE

\* mail_key in [record.get('mail_key') for record in mail_records]
IsDuplicate(key, records) ==
    \E k \in 1 .. Len(records) : records[k].mail_key = key

\* mail_ids[-100:] if len(mail_ids) > 100 else mail_ids
LastN(ids, n) ==
    IF Len(ids) > n THEN SubSeq(ids, Len(ids) - n + 1, Len(ids)) ELSE ids

\* message_numbers.reverse() (get_messages, line 95)
Reverse(ids) == [k \in 1 .. Len(ids) |-> ids[Len(ids) - k + 1]]

\* get_messages, lines 94-95: the last `limit` identifiers, newest first
GetMessagesOrder(ids, limit) == Reverse(LastN(ids, limit))

\* only the first identifier makes it into the set
IdSet_FirstOnly(ids) == IF Len(ids) = 0 THEN ids ELSE << ids[1] >>

\* id_set = b','.join(mail_ids)
IdSet(ids) == ids

\* progress = 40 + int((i / total_mails) * 50) if total_mails else 90
LoopProgress(idx, total) == IF total # 0 THEN 40 + ((idx * 50) \div total) ELSE 90

\* total_progress = 10 + int(progress * 0.8)
FolderProgress(progress) == 10 + ((progress * 8) \div 10)

\* the percent the caller's callback receives for fetch_emails' callback(progress, ...)
CallerPercent(progress) ==
    IF entry = "check_mail" THEN FolderProgress(progress) ELSE progress

(***************************************************************************)
(* Server-side semantics of the IMAP commands the pass sends.  A command   *)
(* that answers NO or raises has left the mailbox as it was.               *)
(***************************************************************************)
Range(n) == [k \in 1 .. n |-> k]

\* SEARCH in INBOX: the sequence numbers matching the command
InboxSearch(lct) ==
    SelectSeq(Range(Len(inbox)),
              LAMBDA k : lct = NoTime \/ DateGE(InternalDate(inbox[k]), lct))

\* COPY id_set INBOX
AfterCopy(ids) == inbox \o [k \in 1 .. Len(ids) |-> junk[ids[k]].m]

\* STORE id_set +FLAGS \Deleted
AfterStore(ids) ==
    [k \in 1 .. Len(junk) |->
        IF \E j \in 1 .. Len(ids) : ids[j] = k
        THEN [junk[k] EXCEPT !.del = TRUE] ELSE junk[k]]

\* EXPUNGE
AfterExpunge == SelectSeq(junk, LAMBDA e : ~e.del)

(***************************************************************************)
(* Variable groups.                                                        *)
(***************************************************************************)
exVars == << msg, xpc, partIdx, text_content, html_content, attachments,
            final_content >>

\* what no step of a pass changes: the arguments of the call, and the
\* extractor's frame when the extractor is not the method under study
cfgVars == << entry, cbMayRaise, acctLct, exVars >>
srvVars == << inbox, junk >>
storeVars == << tokenPersisted, addLog, checkTimeCalls >>
progVars == << progFirst, progLast, progMono >>
cmVars == << access_token, saved_count, result >>
sessVars == << sess, connects >>
srchVars == << searchCmd, searchData >>
loopVars == << junk_ids, mail_ids, i, mail_records >>

feLocals == << retry, aliasIdx, mail, exitKind, ret >>

(***************************************************************************)
(* Outcomes the environment can produce.                                   *)
(***************************************************************************)
\* a call of the caller's progress callback returns or, if it may, raises
CbOutcomes == IF cbMayRaise THEN {"ok", "raise"} ELSE {"ok"}

\* the caller's callback is handed percent v
Deliver(v) ==
    /\ progFirst' = IF progFirst = -1 THEN v ELSE progFirst
    /\ progLast' = v
    /\ progMono' = (progMono /\ (progFirst = -1 \/ progLast <= v))

\* mail.logout() was called on session s (it returned or raised)
AfterLogout(s) == sess \ {s}

(***************************************************************************)
(* _extract_rich_content: the data it works on.  A text (str or bytes) is  *)
(* a sequence of tokens; " ", "\t" and "\n" are its whitespace.             *)
(***************************************************************************)
\* number of sub-parts of a multipart message
MaxParts == 2

Whitespace == {" ", "\t", "\n"}

RECURSIVE LStrip(_)
LStrip(s) ==
    IF Len(s) > 0 /\ Head(s) \in Whitespace THEN LStrip(Tail(s)) ELSE s

RECURSIVE RStrip(_)
RStrip(s) ==
    IF Len(s) > 0 /\ s[Len(s)] \in Whitespace
    THEN RStrip(SubSeq(s, 1, Len(s) - 1)) ELSE s

\* str.strip()
Strip(s) == RStrip(LStrip(s))

\* truth value of a str, bytes or list
Truthy(s) == Len(s) > 0

\* ", ".join(names)
RECURSIVE Join(_)
Join(names) ==
    IF Len(names) = 0 THEN << >>
    ELSE IF Len(names) = 1 THEN << names[1] >>
    ELSE << names[1], ", " >> \o Join(Tail(names))

\* decode_mime_words (backend/utils/email/common.py): RFC 2047 encoded words
\* become their text, anything else is kept
DecodeMimeWords(s) == IF s = "=?utf-8?q?logo.png?=" THEN "logo.png" ELSE s

\* the codecs Python knows, among the charsets the parts declare
KnownCharsets == {"utf-8", "latin-1"}

\* bytes.decode(charset, errors='replace'): an undecodable byte becomes U+FFFD
Decode(payload) ==
    [k \in 1 .. Len(payload) |->
        IF payload[k] = "\\xff" THEN "U+FFFD" ELSE payload[k]]

\* a part of the MIME tree: content type, str(Content-Disposition) reduced to
\* its disposition type ("None" when the header is absent), get_filename()
\* ("None" when absent), get_payload(decode=True) (empty for a container or
\* an empty body), get_content_charset() ("None" when absent) and
\* get_payload() as a string
MkPart(ctype, disposition, filename, payload, charset, raw) ==
    [ctype |-> ctype, disposition |-> disposition, filename |-> filename,
     payload |-> payload, charset |-> charset, raw |-> raw]

Container == MkPart("multipart/mixed", "None", None, << >>, "None", << >>)

PlainPart == MkPart("text/plain", "None", None, << "Hi" >>, "utf-8", << "Hi" >>)

HtmlPart ==
    MkPart("text/html", "None", None, << "<p>", "Hi", "</p>" >>, "utf-8",
           << "<p>", "Hi", "</p>" >>)

ReportPdf ==
    MkPart("application/pdf", "attachment", "report.pdf", << "%PDF" >>, "None",
           << "JVBERg==" >>)

\* the parts a multipart message is made of
SubParts ==
    { PlainPart,
      HtmlPart,
      ReportPdf,
      \* an HTML part holding only whitespace
      MkPart("text/html", "None", None, << " ", "\n" >>, "None", << " ", "\n" >>),
      \* an HTML part in a charset Python has no codec for
      MkPart("text/html", "None", None, << "<b>", "Yo", "</b>" >>, "x-unknown",
             << "<b>", "Yo", "</b>" >>),
      \* an HTML file sent as an attachment
      MkPart("text/html", "attachment", "page.html", << "<i>", "Pg", "</i>" >>,
             "utf-8", << "<i>", "Pg", "</i>" >>),
      \* an inline image with an encoded file name
      MkPart("image/png", "inline", "=?utf-8?q?logo.png?=", << "PNG" >>, "None",
             << "iVBORw==" >>),
      \* a plain part with an undecodable byte and surrounding whitespace
      MkPart("text/plain", "None", None, << "\n", "Caf", "\\xff" >>, "None",
             << "\n", "Caf", "\\xff" >>),
      \* an inline text part with a file name
      MkPart("text/plain", "inline", "notes.txt", << "Notes" >>, "latin-1",
             << "Notes" >>),
      \* an attachment without a file name
      MkPart("application/pdf", "attachment", None, << "%PDF" >>, "None",
             << "JVBERg==" >>),
      \* a nested container
      MkPart("multipart/alternative", "None", None, << >>, "None", << >>) }

\* the single-part messages
SingleParts ==
    { PlainPart,
      \* base64 body
      MkPart("text/plain", "None", None, << "Hi" >>, "None", << "SGk=" >>),
      \* base64 body in a charset Python has no codec for
      MkPart("text/plain", "None", None, << "Hi" >>, "x-unknown", << "SGk=" >>),
      \* a single-part HTML message
      HtmlPart,
      \* a message that is only a file
      ReportPdf }

\* sequences of at most n elements of S
SeqUpTo(S, n) == UNION {[1 .. k -> S] : k \in 0 .. n}

\* the messages the extractor is handed: msg.walk() of a multipart message
\* yields the message itself and then its sub-parts, depth first
ExtractInputs ==
    {[multipart |-> TRUE, parts |-> << Container >> \o ps] :
        ps \in SeqUpTo(SubParts, MaxParts)}
    \cup {[multipart |-> FALSE, parts |-> << p >>] : p \in SingleParts}

NoMsg == [multipart |-> FALSE, parts |-> << >>]

\* no call of _extract_rich_content is under study
ExtractIdle ==
    /\ msg = NoMsg
    /\ xpc = "idle"
    /\ partIdx = 0
    /\ text_content = << >>
    /\ html_content = << >>
    /\ attachments = << >>
    /\ final_content = << >>

\* nothing has happened yet.  copies: the mail.copy calls of the pass that
\* returned OK; junkFailed: a command of the junk stage of this attempt
\* raised or returned a status other than OK; searchNo: the number of
\* sessions opened so far when an inbox search returned a status other than
\* OK (0: none did); outcomes: what became of each message of this attempt's
\* batch so far
NoHistory ==
    [exhausted |-> FALSE, completed |-> FALSE, earlyLogoutRaised |-> FALSE,
     firstSeen |-> {}, fetchReturned |-> FALSE, droppedOther |-> FALSE,
     consol |-> "none", before |-> << >>, J |-> << >>, copies |-> 0,
     junkFailed |-> FALSE, searchNo |-> 0, outcomes |-> << >>]

(***************************************************************************)
(* Initial state: the caller invokes check_mail, or fetch_emails directly. *)
(***************************************************************************)
Init ==
    /\ entry \in {"check_mail", "fetch_emails"}
    /\ cbMayRaise \in BOOLEAN
    /\ acctLct \in LctValues
    /\ lctArg = NoTime
    /\ pc = IF entry = "check_mail" THEN "cm_start" ELSE "fe_start"
    /\ retry = 0
    /\ aliasIdx = 1
    /\ mail = 0
    /\ sess = {}
    /\ connects = 0
    /\ \E place \in [Msgs -> {"inbox", "junk", "none"}] :
          /\ Cardinality({m \in Msgs : place[m] # "none"}) <= MaxInit
          /\ inbox = SelectSeq(Range(3), LAMBDA m : place[m] = "inbox")
          /\ junk = LET js == SelectSeq(Range(3), LAMBDA m : place[m] = "junk")
                    IN  [k \in 1 .. Len(js) |-> [m |-> js[k], del |-> FALSE]]
    /\ junk_ids = << >>
    /\ mail_ids = << >>
    /\ i = 0
    /\ mail_records = << >>
    /\ exitKind = "none"
    /\ ret = << >>
    /\ access_token = None
    /\ tokenPersisted = FALSE
    /\ addLog = << >>
    /\ saved_count = 0
    /\ checkTimeCalls = 0
    /\ result = NoResult
    /\ progFirst = -1
    /\ progLast = -1
    /\ progMono = TRUE
    /\ searchCmd = None
    /\ searchData = NoSearch
    /\ hist = NoHistory
    /\ ExtractIdle

(***************************************************************************)
(* fetch_emails.                                                           *)
(***************************************************************************)
\* lines 239-251: mail_records = [], normalize_check_time, max_retries
FeStart ==
    /\ pc = "fe_start"
    /\ lctArg' = NormalizeCheckTime(
                    IF entry = "check_mail"
                    THEN CheckMailLastCheckTimeArg(acctLct) ELSE acctLct)
    /\ mail_records' = << >>
    /\ retry' = 0
    /\ pc' = "fe_cb10"
    /\ UNCHANGED << cfgVars, srvVars, storeVars, progVars, cmVars, sessVars,
                    srchVars, aliasIdx, mail, exitKind, ret, junk_ids,
                    mail_ids, i, hist >>

\* an exception inside the try block of the attempt: except Exception (line 358)
ToExcept(h) ==
    /\ pc' = "fe_finally"
    /\ exitKind' = "exc"
    /\ hist' = h

\* line 255: callback(10, ...)
FeCallback10 ==
    /\ pc = "fe_cb10"
    /\ Deliver(CallerPercent(10))
    /\ \E o \in CbOutcomes :
          IF o = "raise" THEN ToExcept(hist)
          ELSE pc' = "fe_connect" /\ UNCHANGED << exitKind, hist >>
    /\ UNCHANGED << cfgVars, srvVars, storeVars, cmVars, sessVars, srchVars,
                    loopVars, lctArg, retry, aliasIdx, mail, ret >>

\* line 257: mail = imaplib.IMAP4_SSL('outlook.live.com')
FeConnect ==
    /\ pc = "fe_connect"
    /\ connects' = connects + 1
    /\ \E o \in {"ok", "raise"} :
          IF o = "raise"
          THEN ToExcept(hist) /\ UNCHANGED << mail, sess >>
          ELSE /\ mail' = retry + 1
               /\ sess' = sess \cup {retry + 1}
               /\ pc' = "fe_auth"
               /\ UNCHANGED << exitKind, hist >>
    /\ UNCHANGED << cfgVars, srvVars, storeVars, progVars, cmVars, srchVars,
                    loopVars, lctArg, retry, aliasIdx, ret >>

\* lines 258-259: mail.authenticate('XOAUTH2', ...)
FeAuthenticate ==
    /\ pc = "fe_auth"
    /\ \E o \in {"ok", "raise"} :
          IF o = "raise" THEN ToExcept(hist)
          ELSE pc' = "fe_cb20" /\ UNCHANGED << exitKind, hist >>
    /\ UNCHANGED << cfgVars, srvVars, storeVars, progVars, cmVars, sessVars,
                    srchVars, loopVars, lctArg, retry, aliasIdx, mail, ret >>

\* line 262: callback(20, ...)
FeCallback20 ==
    /\ pc = "fe_cb20"
    /\ Deliver(CallerPercent(20))
    /\ aliasIdx' = 1
    /\ \E o \in CbOutcomes :
          IF o = "raise" THEN ToExcept(hist)
          ELSE pc' = "fe_junk_select" /\ UNCHANGED << exitKind, hist >>
    /\ UNCHANGED << cfgVars, srvVars, storeVars, cmVars, sessVars, srchVars,
                    loopVars, lctArg, retry, mail, ret >>

\* the except clause of line 290 left out: the failure of an alias leaves
\* the alias loop for the handler of the attempt
NextAlias_Escalate == junk_ids' = << >> /\ aliasIdx' = 1 /\ pc' = "fe_finally"

\* `continue` of the alias loop (line 292), or its end; junk_name and the
\* junk stage's mail_ids are not read after the loop
NextAlias ==
    /\ junk_ids' = << >>
    /\ IF aliasIdx < Len(JunkAliases)
       THEN aliasIdx' = aliasIdx + 1 /\ pc' = "fe_junk_select"
       ELSE aliasIdx' = 1 /\ pc' = "fe_cb40"

\* `break` of the alias loop (line 289)
BreakAlias == junk_ids' = << >> /\ aliasIdx' = 1 /\ pc' = "fe_cb40"

\* the alias loop stays with the current alias
SameAlias(next) == junk_ids' = junk_ids /\ aliasIdx' = aliasIdx /\ pc' = next

\* bookkeeping: no complete consolidation in this attempt (so far)
NoConsol == [hist EXCEPT !.consol = "none", !.before = << >>, !.J = << >>]

\* bookkeeping: a command of the junk stage raised or returned a status
\* other than OK
JunkFailed(h, o) == IF o = "OK" THEN h ELSE [h EXCEPT !.junkFailed = TRUE]

\* the status of the copy is not read
CopySucceeded_Always(res) == TRUE

\* line 280: if res == 'OK'
CopySucceeded(res) == res = "OK"

\* lines 265-266: status, _ = mail.select(junk_name)
FeJunkSelect ==
    /\ pc = "fe_junk_select"
    /\ \E o \in {"OK", "NO", "raise"} :
          /\ IF o = "OK" THEN SameAlias("fe_junk_search") ELSE NextAlias
          /\ hist' = JunkFailed(hist, o)
    /\ UNCHANGED << cfgVars, srvVars, storeVars, progVars, cmVars, sessVars,
                    srchVars, mail_ids, i, mail_records, lctArg, retry, mail,
                    exitKind, ret >>

\* lines 270-273: status, data = mail.search(None, 'ALL'); mail_ids = data[0].split()
FeJunkSearch ==
    /\ pc = "fe_junk_search"
    /\ \E o \in {"OK", "NO", "raise"} :
          /\ CASE o = "OK" ->
                   IF Len(junk) > 0
                   THEN /\ junk_ids' = Range(Len(junk))
                        /\ aliasIdx' = aliasIdx
                        /\ pc' = "fe_junk_copy"
                   ELSE BreakAlias
              [] o = "NO" -> BreakAlias
              [] OTHER -> NextAlias
          /\ hist' = JunkFailed(hist, o)
    /\ UNCHANGED << cfgVars, srvVars, storeVars, progVars, cmVars, sessVars,
                    srchVars, mail_ids, i, mail_records, lctArg, retry, mail,
                    exitKind, ret >>

JunkMessages == [k \in 1 .. Len(junk) |-> junk[k].m]

\* lines 276-280: id_set = b','.join(mail_ids); res, _ = mail.copy(id_set, 'INBOX')
FeJunkCopy ==
    /\ pc = "fe_junk_copy"
    /\ LET ids == IdSet(junk_ids)
           fits == Len(inbox) + Len(ids) <= MaxInbox
       IN  \E o \in {"OK", "NO", "raise"} :
             /\ o = "OK" => fits
             /\ inbox' = IF o = "OK" THEN AfterCopy(ids) ELSE inbox
             /\ hist' = IF o = "OK"
                        THEN [hist EXCEPT !.consol = "copied",
                                          !.before = inbox,
                                          !.J = JunkMessages,
                                          !.copies = @ + 1]
                        ELSE JunkFailed(NoConsol, o)
             /\ IF o = "raise" THEN NextAlias
                ELSE IF CopySucceeded(o) THEN SameAlias("fe_junk_store")
                ELSE BreakAlias
    /\ UNCHANGED << cfgVars, junk, storeVars, progVars, cmVars, sessVars,
                    srchVars, mail_ids, i, mail_records, lctArg, retry, mail,
                    exitKind, ret >>

\* line 282: mail.store(id_set, '+FLAGS', '\\Deleted'); its status is not read
FeJunkStore ==
    /\ pc = "fe_junk_store"
    /\ LET ids == IdSet(junk_ids)
       IN  \E o \in {"OK", "NO", "raise"} :
             /\ junk' = IF o = "OK" THEN AfterStore(ids) ELSE junk
             /\ IF o \in {"OK", "NO"}
                THEN SameAlias("fe_junk_expunge")
                ELSE NextAlias
             /\ hist' = IF o = "OK" /\ hist.consol = "copied"
                        THEN [hist EXCEPT !.consol = "stored"]
                        ELSE JunkFailed(NoConsol, o)
    /\ UNCHANGED << cfgVars, inbox, storeVars, progVars, cmVars, sessVars,
                    srchVars, mail_ids, i, mail_records, lctArg, retry, mail,
                    exitKind, ret >>

\* line 284: mail.expunge(), then the break of line 289
FeJunkExpunge ==
    /\ pc = "fe_junk_expunge"
    /\ \E o \in {"OK", "NO", "raise"} :
          /\ junk' = IF o = "OK" THEN AfterExpunge ELSE junk
          /\ IF o \in {"OK", "NO"} THEN BreakAlias ELSE NextAlias
          /\ hist' = IF o = "OK" /\ hist.consol = "stored"
                     THEN [hist EXCEPT !.consol = "done"]
                     ELSE JunkFailed(NoConsol, o)
    /\ UNCHANGED << cfgVars, inbox, storeVars, progVars, cmVars, sessVars,
                    srchVars, mail_ids, i, mail_records, lctArg, retry, mail,
                    exitKind, ret >>

\* line 295: callback(40, ...)
FeCallback40 ==
    /\ pc = "fe_cb40"
    /\ Deliver(CallerPercent(40))
    /\ \E o \in CbOutcomes :
          IF o = "raise" THEN ToExcept(hist)
          ELSE pc' = "fe_select_inbox" /\ UNCHANGED << exitKind, hist >>
    /\ UNCHANGED << cfgVars, srvVars, storeVars, cmVars, sessVars, srchVars,
                    loopVars, lctArg, retry, aliasIdx, mail, ret >>

\* line 296: mail.select('INBOX'); its status is not read
FeSelectInbox ==
    /\ pc = "fe_select_inbox"
    /\ \E o \in {"ok", "raise"} :
          IF o = "raise" THEN ToExcept(hist)
          ELSE pc' = "fe_search" /\ UNCHANGED << exitKind, hist >>
    /\ UNCHANGED << cfgVars, srvVars, storeVars, progVars, cmVars, sessVars,
                    srchVars, loopVars, lctArg, retry, aliasIdx, mail, ret >>

\* lines 298-317: the inbox search, the status check, mail_ids and the cap
FeSearch ==
    /\ pc = "fe_search"
    /\ searchCmd' = SearchCommand(lctArg)
    /\ \E o \in {"OK", "NO", "raise"} :
          CASE o = "OK" ->
                 LET found == InboxSearch(lctArg)
                 IN  /\ searchData' = [ok |-> TRUE,
                                     msgs |-> [k \in 1 .. Len(found) |-> inbox[found[k]]]]
                     /\ mail_ids' = LastN(found, FetchCap)
                     /\ i' = 0
                     /\ pc' = IF Len(found) = 0 THEN "fe_cb90" ELSE "fe_loop_cb"
                     /\ hist' = [hist EXCEPT !.junkFailed = FALSE]
                     /\ UNCHANGED exitKind
            [] o = "NO" ->
                 /\ pc' = "fe_early_logout"
                 /\ hist' = [hist EXCEPT !.junkFailed = FALSE,
                                         !.searchNo = connects]
                 /\ UNCHANGED << searchData, mail_ids, i, exitKind >>
            [] OTHER ->
                 /\ ToExcept([hist EXCEPT !.junkFailed = FALSE])
                 /\ UNCHANGED << searchData, mail_ids, i >>
    /\ UNCHANGED << cfgVars, srvVars, storeVars, progVars, cmVars, sessVars,
                    junk_ids, mail_records, lctArg, retry, aliasIdx, mail, ret >>

\* lines 308-310: mail.logout(); return []
FeEarlyLogout ==
    /\ pc = "fe_early_logout"
    /\ \E o \in {"ok", "raise"} :
          /\ sess' = AfterLogout(mail)
          /\ IF o = "raise"
             THEN ToExcept([hist EXCEPT !.earlyLogoutRaised = TRUE])
             ELSE pc' = "fe_finally" /\ exitKind' = "ret" /\ hist' = hist
    /\ UNCHANGED << cfgVars, srvVars, storeVars, progVars, cmVars, connects,
                    srchVars, loopVars, lctArg, retry, aliasIdx, mail, ret >>

\* lines 321-322: progress = ...; callback(progress, "INBOX")
FeLoopCallback ==
    /\ pc = "fe_loop_cb"
    /\ Deliver(CallerPercent(LoopProgress(i, Len(mail_ids))))
    /\ \E o \in CbOutcomes :
          IF o = "raise" THEN ToExcept(hist)
          ELSE pc' = "fe_fetch" /\ UNCHANGED << exitKind, hist >>
    /\ UNCHANGED << cfgVars, srvVars, storeVars, cmVars, sessVars, srchVars,
                    loopVars, lctArg, retry, aliasIdx, mail, ret >>

\* mail_records.append({...}) unless the key is already there (lines 336-349)
Retain(records, m) ==
    IF IsDuplicate(KeyOf(m), records)
    THEN records
    ELSE Append(records, [m |-> m, mail_key |-> KeyOf(m)])

\* line 319: for i, mail_id in enumerate(mail_ids)
ProcessingOrder(ids) == ids

\* the except clause of line 351 left out: an exception ends the batch
NextInLoop_AbortOnRaise(outcome, idx, n) ==
    IF outcome # "raise" /\ idx < n THEN "fe_loop_cb" ELSE "fe_cb90"

\* lines 319, 337, 351-352: where the loop goes after message number idx of
\* n was appended, skipped as a duplicate, or failed (the failure is logged)
NextInLoop(outcome, idx, n) == IF idx < n THEN "fe_loop_cb" ELSE "fe_cb90"

\* lines 324-352: fetch, parse, key, dedup, append; any exception is logged
FeFetchMessage ==
    /\ pc = "fe_fetch"
    /\ \E o \in {"ok", "raise"} :
          LET m == inbox[ProcessingOrder(mail_ids)[i + 1]]
          IN  /\ IF o = "ok"
                 THEN /\ mail_records' = Retain(mail_records, m)
                      /\ hist' = [hist EXCEPT
                                     !.firstSeen =
                                        IF \E p \in @ : p[1] = KeyOf(m)
                                        THEN @ ELSE @ \cup {<< KeyOf(m), m >>},
                                     !.droppedOther =
                                        @ \/ \E p \in hist.firstSeen :
                                                p[1] = KeyOf(m) /\ p[2] # m,
                                     !.outcomes = Append(@, o)]
                 ELSE /\ mail_records' = mail_records
                      /\ hist' = [hist EXCEPT !.outcomes = Append(@, o)]
              /\ pc' = NextInLoop(o, i + 1, Len(mail_ids))
    /\ i' = i + 1
    /\ UNCHANGED << cfgVars, srvVars, storeVars, progVars, cmVars, sessVars,
                    srchVars, junk_ids, mail_ids, lctArg, retry, aliasIdx, mail,
                    exitKind, ret >>

\* lines 354-356: callback(90, ...); break
FeCallback90 ==
    /\ pc = "fe_cb90"
    /\ Deliver(CallerPercent(90))
    /\ \E o \in CbOutcomes :
          IF o = "raise" THEN ToExcept(hist)
          ELSE /\ pc' = "fe_finally"
               /\ exitKind' = "break"
               /\ hist' = [hist EXCEPT !.completed = TRUE]
    /\ UNCHANGED << cfgVars, srvVars, storeVars, cmVars, sessVars, srchVars,
                    loopVars, lctArg, retry, aliasIdx, mail, ret >>

\* where fetch_emails' caller continues
AfterFetch == IF entry = "check_mail" THEN "cm_cb90" ELSE "fe_returned"

\* an off-by-one in the loop bound: range(max_retries + 1)
RetryAgain_OneMore(r) == r + 1 < MaxRetries + 1

\* whether the for loop runs another attempt after an exception
RetryAgain(r) == r + 1 < MaxRetries

\* bookkeeping: what is recorded about one attempt is forgotten
AttemptOver == [NoConsol EXCEPT !.junkFailed = FALSE, !.outcomes = << >>]

\* lines 358-367: except (sleep), finally: mail.logout() with every error
\* swallowed (the NameError of an unbound `mail` too), then the next attempt
\* or the return
FeFinally ==
    /\ pc = "fe_finally"
    /\ sess' = IF mail = 0 THEN sess ELSE AfterLogout(mail)
    /\ IF exitKind = "exc" /\ RetryAgain(retry)
       THEN /\ pc' = "fe_cb10"
            /\ retry' = retry + 1
            /\ UNCHANGED << ret, mail, mail_records >>
            /\ hist' = AttemptOver
       ELSE /\ pc' = AfterFetch
            /\ ret' = IF exitKind = "ret" THEN << >> ELSE mail_records
            \* the frame of fetch_emails is gone
            /\ retry' = 0
            /\ mail' = 0
            /\ mail_records' = << >>
            /\ hist' = [AttemptOver EXCEPT !.fetchReturned = TRUE,
                                        !.exhausted = (exitKind = "exc"),
                                        !.firstSeen = {},
                                        !.droppedOther = FALSE]
    /\ exitKind' = "none"
    /\ aliasIdx' = 1
    /\ junk_ids' = << >>
    /\ mail_ids' = << >>
    /\ i' = 0
    /\ searchData' = NoSearch
    /\ UNCHANGED << cfgVars, srvVars, storeVars, progVars, cmVars, connects,
                    searchCmd, lctArg >>

(***************************************************************************)
(* check_mail.                                                             *)
(***************************************************************************)
Failure(text) == [success |-> FALSE, message |-> text, total |-> -1, saved |-> -1]

\* line 384: progress_callback(0, ...), outside every try block
CmStart ==
    /\ pc = "cm_start"
    /\ Deliver(0)
    /\ \E o \in CbOutcomes :
          pc' = IF o = "raise" THEN "propagated" ELSE "cm_token"
    /\ UNCHANGED << cfgVars, srvVars, storeVars, cmVars, sessVars, srchVars,
                    loopVars, feLocals, lctArg, hist >>

\* get_new_access_token (lines 138-158): the token, or None on an error
\* field and on any exception
GetNewAccessToken(response) == IF response = "token" THEN "tok" ELSE None

\* the check of the token left out
TokenMissing_Never(token) == FALSE

\* line 389: if not access_token
TokenMissing(token) == token = None

\* lines 388-389
CmGetToken ==
    /\ pc = "cm_token"
    /\ \E response \in {"token", "error_field", "exception"} :
          /\ access_token' = GetNewAccessToken(response)
          /\ pc' = IF TokenMissing(access_token') THEN "cm_token_failed"
                   ELSE "cm_update_token"
    /\ UNCHANGED << cfgVars, srvVars, storeVars, progVars, saved_count,
                    result, sessVars, srchVars, loopVars, feLocals, lctArg,
                    hist >>

\* lines 390-396: progress_callback(0, error_msg); return {'success': False, ...}
CmTokenFailed ==
    /\ pc = "cm_token_failed"
    /\ Deliver(0)
    /\ \E o \in CbOutcomes :
          IF o = "raise"
          THEN pc' = "cm_outer_exc" /\ result' = result
          ELSE pc' = "returned" /\ result' = Failure("token")
    /\ UNCHANGED << cfgVars, srvVars, storeVars, access_token, saved_count,
                    sessVars, srchVars, loopVars, feLocals, lctArg, hist >>

\* the call made before the try block, like the callback of line 384
TokenStoreRaised_Outside == "propagated"

\* where an exception of line 399 lands: the except clause of line 469
TokenStoreRaised == "cm_outer_exc"

\* line 399: db.update_email_token(email_id, access_token)
CmUpdateToken ==
    /\ pc = "cm_update_token"
    /\ \E o \in {"ok", "raise"} :
          /\ tokenPersisted' = (o = "ok")
          /\ pc' = IF o = "raise" THEN TokenStoreRaised ELSE "cm_cb10"
    /\ UNCHANGED << cfgVars, srvVars, addLog, checkTimeCalls, progVars, cmVars,
                    sessVars, srchVars, loopVars, feLocals, lctArg, hist >>

\* line 402: progress_callback(10, ...), then the call of fetch_emails
CmCallback10 ==
    /\ pc = "cm_cb10"
    /\ Deliver(10)
    /\ \E o \in CbOutcomes :
          pc' = IF o = "raise" THEN "cm_outer_exc" ELSE "fe_start"
    /\ UNCHANGED << cfgVars, srvVars, storeVars, cmVars, sessVars, srchVars,
                    loopVars, feLocals, lctArg, hist >>

\* lines 421-425: count = len(mail_records); progress_callback(90, ...); saved_count = 0
CmCallback90 ==
    /\ pc = "cm_cb90"
    /\ Deliver(90)
    /\ saved_count' = 0
    /\ \E o \in CbOutcomes :
          pc' = IF o = "raise" THEN "cm_inner_exc"
                ELSE IF Len(ret) = 0 THEN "cm_check_time" ELSE "cm_add"
    /\ UNCHANGED << cfgVars, srvVars, storeVars, access_token, result,
                    sessVars, srchVars, loopVars, feLocals, lctArg, hist >>

\* lines 435-436: if success: saved_count += 1
SavedAfter(saved, outcome) == IF outcome = "ok" THEN saved + 1 ELSE saved

\* the try block put around the loop: an exception ends the loop
AfterAdd_AbortOnRaise(outcome, idx, n) ==
    IF outcome # "raise" /\ idx < n THEN "cm_add" ELSE "cm_check_time"

\* lines 426-438: where the loop goes after add_mail_record number idx of n
\* returned or raised (the except clause only logs)
AfterAdd(outcome, idx, n) == IF idx < n THEN "cm_add" ELSE "cm_check_time"

\* lines 426-438: one iteration of `for record in mail_records`
CmAddRecord ==
    /\ pc = "cm_add"
    /\ LET idx == Len(addLog) + 1
       IN  \E o \in {"ok", "fail", "raise"} :
              /\ addLog' = Append(addLog, [rec |-> ret[idx], outcome |-> o])
              /\ saved_count' = IF o = "raise" THEN saved_count
                                ELSE SavedAfter(saved_count, o)
              /\ pc' = AfterAdd(o, idx, Len(ret))
    /\ UNCHANGED << cfgVars, srvVars, tokenPersisted, checkTimeCalls, progVars,
                    access_token, result, sessVars, srchVars, loopVars,
                    feLocals, lctArg, hist >>

\* lines 441-446: db.update_check_time(email_id); an exception is logged
CmUpdateCheckTime ==
    /\ pc = "cm_check_time"
    /\ checkTimeCalls' = checkTimeCalls + 1
    /\ \E o \in {"ok", "raise"} : pc' = "cm_cb100"
    /\ UNCHANGED << cfgVars, srvVars, tokenPersisted, addLog, progVars, cmVars,
                    sessVars, srchVars, loopVars, feLocals, lctArg, hist >>

\* lines 449-458: progress_callback(100, ...); return {'success': True, ...}
CmCallback100 ==
    /\ pc = "cm_cb100"
    /\ Deliver(100)
    /\ \E o \in CbOutcomes :
          IF o = "raise"
          THEN pc' = "cm_inner_exc" /\ result' = result
          ELSE /\ pc' = "returned"
               /\ result' = [success |-> TRUE, message |-> "done",
                             total |-> Len(ret), saved |-> saved_count]
    /\ UNCHANGED << cfgVars, srvVars, storeVars, access_token, saved_count,
                    sessVars, srchVars, loopVars, feLocals, lctArg, hist >>

\* lines 460-467: the except clause around the fetch and save stages
CmInnerExcept ==
    /\ pc = "cm_inner_exc"
    /\ Deliver(0)
    /\ \E o \in CbOutcomes :
          IF o = "raise"
          THEN pc' = "cm_outer_exc" /\ result' = result
          ELSE pc' = "returned" /\ result' = Failure("check")
    /\ UNCHANGED << cfgVars, srvVars, storeVars, access_token, saved_count,
                    sessVars, srchVars, loopVars, feLocals, lctArg, hist >>

\* lines 469-476: the outermost except clause
CmOuterExcept ==
    /\ pc = "cm_outer_exc"
    /\ Deliver(0)
    /\ \E o \in CbOutcomes :
          IF o = "raise"
          THEN pc' = "propagated" /\ result' = result
          ELSE pc' = "returned" /\ result' = Failure("process")
    /\ UNCHANGED << cfgVars, srvVars, storeVars, access_token, saved_count,
                    sessVars, srchVars, loopVars, feLocals, lctArg, hist >>

(***************************************************************************)
(* _extract_rich_content (lines 166-229), called on its own: the walk of   *)
(* the MIME tree, the choice of the body and the attachment footer.        *)
(***************************************************************************)
passVars == << entry, cbMayRaise, acctLct, lctArg, pc, retry, aliasIdx, mail,
               sess, connects, inbox, junk, junk_ids, mail_ids, i,
               mail_records, exitKind, ret, access_token, tokenPersisted,
               addLog, saved_count, checkTimeCalls, result, progFirst,
               progLast, progMono, searchCmd, searchData, hist >>

\* lines 181-184: filename = part.get_filename(); if filename: append the
\* decoded name
AfterFilename(names, part) ==
    IF part.filename # None /\ part.filename # ""
    THEN Append(names, DecodeMimeWords(part.filename))
    ELSE names

\* line 187: 'attachment' in content_disposition
IsAttachment(part) == part.disposition = "attachment"

\* lines 192-200: the payload is there and its charset (utf-8 when none is
\* declared) has a codec; otherwise `continue`, or the exception is passed over
Decodes(part) ==
    /\ Truthy(part.payload)
    /\ (part.charset = "None" \/ part.charset \in KnownCharsets)

\* lines 187-207: what the part adds to the buffer of content type ctype
Decoded(part, ctype) ==
    IF ~IsAttachment(part) /\ Decodes(part) /\ part.ctype = ctype
    THEN Decode(part.payload)
    ELSE << >>

\* lines 210-215: the body of a single-part message, or the raw payload
\* string when decoding raised
SingleText(part) ==
    IF part.charset = "None" \/ part.charset \in KnownCharsets
    THEN Decode(part.payload)
    ELSE part.raw

\* the plain-text buffer wins whenever it has text
FinalBody_PlainFirst(html, text) == IF Truthy(Strip(text)) THEN text ELSE html

\* line 219: final_content = html_content if html_content.strip() else text_content
FinalBody(html, text) == IF Truthy(Strip(html)) THEN html ELSE text

HtmlFooter(names) ==
    << "<br><hr><b>", "[XiTongTiShi] BaoHanFuJian:", "</b> " >> \o Join(names)

PlainFooter(names) ==
    << "\n\n", "----------------", "\n", "[BaoHanFuJian]: " >> \o Join(names)

\* the test of line 224 left out: the footer is always markup
AttStr_AlwaysHtml(html, names) == HtmlFooter(names)

\* lines 223-226: att_str, in the format of the body chosen
AttStr(html, names) ==
    IF ~Truthy(Strip(html)) THEN PlainFooter(names) ELSE HtmlFooter(names)

\* lines 219-229: the value returned
Assemble(html, text, names) ==
    IF Truthy(names)
    THEN FinalBody(html, text) \o AttStr(html, names)
    ELSE FinalBody(html, text)

\* lines 170-175
ExStart ==
    /\ xpc = "start"
    /\ text_content' = << >>
    /\ html_content' = << >>
    /\ attachments' = << >>
    /\ partIdx' = 1
    /\ xpc' = IF msg.multipart THEN "walk" ELSE "single"
    /\ UNCHANGED << passVars, msg, final_content >>

\* lines 176-207: one iteration of `for part in msg.walk()`
ExWalkPart ==
    /\ xpc = "walk"
    /\ LET part == msg.parts[partIdx]
       IN  /\ attachments' = AfterFilename(attachments, part)
           /\ html_content' = html_content \o Decoded(part, "text/html")
           /\ text_content' = text_content \o Decoded(part, "text/plain")
    /\ partIdx' = partIdx + 1
    /\ xpc' = IF partIdx < Len(msg.parts) THEN "walk" ELSE "assemble"
    /\ UNCHANGED << passVars, msg, final_content >>

\* lines 208-215: the message is not multipart
ExSinglePart ==
    /\ xpc = "single"
    /\ text_content' = SingleText(msg.parts[1])
    /\ xpc' = "assemble"
    /\ UNCHANGED << passVars, msg, partIdx, html_content, attachments,
                    final_content >>

\* lines 217-229
ExAssemble ==
    /\ xpc = "assemble"
    /\ final_content' = Assemble(html_content, text_content, attachments)
    /\ xpc' = "done"
    /\ UNCHANGED << passVars, msg, partIdx, text_content, html_content,
                    attachments >>

\* no pass is under study
PassIdle ==
    /\ entry = "_extract_rich_content"
    /\ cbMayRaise = FALSE
    /\ acctLct = NoTime
    /\ lctArg = NoTime
    /\ pc = "idle"
    /\ retry = 0
    /\ aliasIdx = 1
    /\ mail = 0
    /\ sess = {}
    /\ connects = 0
    /\ inbox = << >>
    /\ junk = << >>
    /\ junk_ids = << >>
    /\ mail_ids = << >>
    /\ i = 0
    /\ mail_records = << >>
    /\ exitKind = "none"
    /\ ret = << >>
    /\ access_token = None
    /\ tokenPersisted = FALSE
    /\ addLog = << >>
    /\ saved_count = 0
    /\ checkTimeCalls = 0
    /\ result = NoResult
    /\ progFirst = -1
    /\ progLast = -1
    /\ progMono = TRUE
    /\ searchCmd = None
    /\ searchData = NoSearch
    /\ hist = NoHistory

\* the caller hands a parsed message to _extract_rich_content
ExtractInit ==
    /\ PassIdle
    /\ msg \in ExtractInputs
    /\ xpc = "start"
    /\ partIdx = 0
    /\ text_content = << >>
    /\ html_content = << >>
    /\ attachments = << >>
    /\ final_content = << >>

ExtractNext ==
    \/ ExStart
    \/ ExWalkPart
    \/ ExSinglePart
    \/ ExAssemble

ExtractSpec == ExtractInit /\ [][ExtractNext]_vars

(***************************************************************************)
(* The pass.                                                               *)
(***************************************************************************)
Next ==
    \/ CmStart
    \/ CmGetToken
    \/ CmTokenFailed
    \/ CmUpdateToken
    \/ CmCallback10
    \/ FeStart
    \/ FeCallback10
    \/ FeConnect
    \/ FeAuthenticate
    \/ FeCallback20
    \/ FeJunkSelect
    \/ FeJunkSearch
    \/ FeJunkCopy
    \/ FeJunkStore
    \/ FeJunkExpunge
    \/ FeCallback40
    \/ FeSelectInbox
    \/ FeSearch
    \/ FeEarlyLogout
    \/ FeLoopCallback
    \/ FeFetchMessage
    \/ FeCallback90
    \/ FeFinally
    \/ CmCallback90
    \/ CmAddRecord
    \/ CmUpdateCheckTime
    \/ CmCallback100
    \/ CmInnerExcept
    \/ CmOuterExcept

Spec == Init /\ [][Next]_vars

\* check_mail passes: every call the pass makes returns or raises (the spec's
\* section 5: blocking calls, a callback that does not block forever), so
\* the pass keeps taking steps
FairInit == Init /\ entry = "check_mail" /\ Len(inbox) + Len(junk) <= FairMsgs

FairSpec == FairInit /\ [][Next]_vars /\ WF_vars(Next)

TypeOK ==
    /\ pc \in {"cm_start", "cm_token", "cm_token_failed", "cm_update_token",
               "cm_cb10", "fe_start", "fe_cb10", "fe_connect", "fe_auth",
               "fe_cb20", "fe_junk_select", "fe_junk_search", "fe_junk_copy",
               "fe_junk_store", "fe_junk_expunge", "fe_cb40",
               "fe_select_inbox", "fe_search", "fe_early_logout",
               "fe_loop_cb", "fe_fetch", "fe_cb90", "fe_finally",
               "fe_returned", "cm_cb90", "cm_add", "cm_check_time",
               "cm_cb100", "cm_inner_exc", "cm_outer_exc", "returned",
               "propagated"}
    /\ retry \in 0 .. MaxRetries - 1
    /\ aliasIdx \in 1 .. Len(JunkAliases)
    /\ mail \in 0 .. MaxRetries
    /\ Len(inbox) <= MaxInbox

(***************************************************************************)
(* Properties.                                                             *)
(***************************************************************************)
Returned == pc = "returned"

SinceFilter(msgs, lct) ==
    SelectSeq(msgs, LAMBDA m : lct = NoTime \/ DateGE(InternalDate(m), lct))

SavedIn(log) == Cardinality({k \in 1 .. Len(log) : log[k].outcome = "ok"})

\* C1: when every one of the 3 attempts of the pass ended with an exception
\* of the mail session (the callback never raising), the result check_mail
\* returns has success = FALSE.
C1_ExhaustedRetriesFail ==
    (Returned /\ ~cbMayRaise /\ hist.exhausted) => ~result.success

\* C2: in a pass that returns success = TRUE (the callback never raising),
\* the percents handed to the caller's callback never decrease, the first is
\* at most 10 and the last is 100.
C2_ProgressNonDecreasing ==
    (Returned /\ ~cbMayRaise /\ result.success)
        => (progMono /\ progFirst <= 10 /\ progLast = 100)

\* C3: mail_records, and the list fetch_emails returns, never hold two
\* records with the same identity key, across all attempts of the pass; the
\* record kept for a key is the first message processed with that key.
C3_NoDuplicateKeys ==
    /\ \A a, b \in 1 .. Len(mail_records) :
          a # b => mail_records[a].mail_key # mail_records[b].mail_key
    /\ {<< mail_records[k].mail_key, mail_records[k].m >> :
           k \in 1 .. Len(mail_records)} = hist.firstSeen
    /\ \A a, b \in 1 .. Len(ret) : a # b => ret[a].mail_key # ret[b].mail_key

C3_Witness ==
    /\ pc = "fe_finally"
    /\ exitKind = "break"
    /\ retry >= 1
    /\ hist.droppedOther
    /\ Len(mail_records) >= 1

\* C4: when an attempt has ended (the next one starts, or fetch_emails has
\* returned) logout has been called on every session the pass opened; and a
\* logout that raises does not change the records returned: the pass whose
\* inbox search failed returns the empty list it returns when logout succeeds.
C4_TeardownOnEveryExit ==
    /\ (pc = "fe_cb10" \/ hist.fetchReturned) => sess = {}
    /\ (hist.fetchReturned /\ hist.earlyLogoutRaised) => ret = << >>

\* C5: once the token refresh has yielded no token, no mail session is
\* opened, the token is not persisted, add_record and update_check_time are
\* not called, and check_mail returns success = FALSE (it returns unless the
\* caller's callback raises).
C5_NoTokenNoPass ==
    (entry = "check_mail" /\ pc \notin {"cm_start", "cm_token"}
       /\ access_token = None)
        => /\ connects = 0
           /\ sess = {}
           /\ ~tokenPersisted
           /\ addLog = << >>
           /\ checkTimeCalls = 0
           /\ pc \in {"cm_token_failed", "cm_outer_exc", "returned", "propagated"}
           /\ (Returned => ~result.success)
           /\ (pc \in {"cm_outer_exc", "propagated"} => cbMayRaise)

C5_Witness ==
    /\ Returned
    /\ access_token = None
    /\ ~result.success
    /\ connects = 0

\* C6: a pass calls IMAP4_SSL at most 3 times, and not again once an attempt
\* has run to its break (line 356).
C6_AtMostThreeSessions ==
    /\ [](connects <= 3)
    /\ [][hist.completed => connects' = connects]_vars

C6_Witness ==
    /\ connects = 3
    /\ hist.completed
    /\ hist.fetchReturned

\* C7: with a callback that never raises, check_mail returns a SyncResult
\* (a success flag and a message) whatever the token endpoint, the mail
\* session and the store do; no exception leaves it.
C7_AlwaysReturns ==
    []((entry = "check_mail" /\ ~cbMayRaise)
          => <>(Returned /\ result.message # "None"
                  /\ result.success \in BOOLEAN))

C7_Witness ==
    /\ Returned
    /\ ~cbMayRaise
    /\ tokenPersisted
    /\ \E k \in 1 .. Len(addLog) : addLog[k].outcome = "raise"

\* C8: in a check_mail pass the inbox search is the SINCE search of the
\* account's last check date when the account has one, and ALL only when it
\* has none.
C8_SinceSearchInSync ==
    (entry = "check_mail" /\ searchCmd # None)
        => searchCmd = (IF acctLct # NoTime THEN "(SINCE \"01-Jan-2024\")"
                        ELSE "ALL")

\* C9 as stated: after a consolidation whose select, search, copy, store and
\* expunge all succeeded on a non-empty junk folder J, INBOX holds its
\* previous messages followed by J, the junk folder is empty, and the inbox
\* search of the same attempt returns all of them.
C9_SearchReturnsAll ==
    hist.consol = "done"
        => /\ inbox = hist.before \o hist.J
           /\ junk = << >>
           /\ (searchData.ok => searchData.msgs = hist.before \o hist.J)

\* C9 amended: ... and the inbox search of the same attempt returns those of
\* them that match the search: all of them for ALL, those that arrived on or
\* after the last check date for SINCE.
C9_SearchReturnsMatching ==
    hist.consol = "done"
        => /\ Len(hist.J) > 0
           /\ inbox = hist.before \o hist.J
           /\ junk = << >>
           /\ (searchData.ok
                 => searchData.msgs = SinceFilter(hist.before \o hist.J, lctArg))

C9_Witness ==
    /\ hist.consol = "done"
    /\ searchData.ok
    /\ Len(hist.before) > 0
    /\ Len(hist.J) > 0
    /\ searchData.msgs = inbox

\* C10: add_record is called once per fetched record, in order, whatever
\* the earlier calls did; once the save stage is over every record has had
\* its call; total is the number of fetched records and saved the number of
\* calls that returned success.
C10_EveryRecordSaved ==
    /\ Len(addLog) <= Len(ret)
    /\ \A k \in 1 .. Len(addLog) : addLog[k].rec = ret[k]
    /\ saved_count = SavedIn(addLog)
    /\ (pc \in {"cm_check_time", "cm_cb100"} \/ (Returned /\ result.success))
          => Len(addLog) = Len(ret)
    /\ (Returned /\ result.success)
          => /\ result.total = Len(ret)
             /\ result.saved = SavedIn(addLog)
             /\ result.saved <= result.total

C10_Witness ==
    /\ Returned
    /\ result.success
    /\ result.total = 2
    /\ result.saved = 1
    /\ addLog[1].outcome = "raise"
    /\ addLog[2].outcome = "ok"

HasPart(m, ctype) ==
    m.multipart /\ \E k \in 1 .. Len(m.parts) : m.parts[k].ctype = ctype

HasBoth(m) == HasPart(m, "text/html") /\ HasPart(m, "text/plain")

\* whether the walk reads the part's payload: the part is not an attachment
\* and its charset is absent or known
Readable(p) ==
    p.disposition # "attachment" /\ p.charset \in KnownCharsets \cup {"None"}

\* the decoded payloads, in walk order, of the parts of content type ctype
\* (every one of them, or the readable ones only)
RECURSIVE BodyOf(_, _, _)
BodyOf(parts, ctype, every) ==
    IF Len(parts) = 0 THEN << >>
    ELSE (IF Head(parts).ctype = ctype /\ (every \/ Readable(Head(parts)))
          THEN Decode(Head(parts).payload) ELSE << >>)
         \o BodyOf(Tail(parts), ctype, every)

\* the body a reader of the message sees: every part of the content type
WholeBody(m, ctype) == BodyOf(m.parts, ctype, TRUE)

\* the buffer the walk fills
BufferOf(m, ctype) == BodyOf(m.parts, ctype, FALSE)

\* the decoded file names of the parts that have one, in walk order
RECURSIVE NamesOf(_)
NamesOf(parts) ==
    IF Len(parts) = 0 THEN << >>
    ELSE (IF Head(parts).filename \notin {None, ""}
          THEN << DecodeMimeWords(Head(parts).filename) >> ELSE << >>)
         \o NamesOf(Tail(parts))

OptFooter(names, footer) == IF Len(names) > 0 THEN footer ELSE << >>

\* C11 as stated: for a message with a text/html part and a text/plain
\* part, the content returned is the concatenated HTML body, alone or
\* followed by the HTML attachment footer, and not the plain-text body.
C11_HtmlAlwaysWins ==
    (xpc = "done" /\ HasBoth(msg))
        => /\ final_content \in
                 { WholeBody(msg, "text/html"),
                   WholeBody(msg, "text/html") \o HtmlFooter(attachments) }
           /\ final_content \notin
                 { WholeBody(msg, "text/plain"),
                   WholeBody(msg, "text/plain") \o PlainFooter(attachments) }

\* C11 amended: for a message with a text/html part and a text/plain part,
\* when the HTML buffer (the decoded payloads of the text/html parts that are
\* not attachments and decode) is non-empty after trimming, the content
\* returned is that buffer, alone or followed by the HTML footer, and not the
\* plain-text buffer; when it is empty after trimming, the content is the
\* plain-text buffer, alone or followed by the plain-text footer.
C11_HtmlWinsWhenNonBlank ==
    (xpc = "done" /\ HasBoth(msg))
        => LET H == BufferOf(msg, "text/html")
               T == BufferOf(msg, "text/plain")
               names == NamesOf(msg.parts)
           IN  IF Len(Strip(H)) > 0
               THEN /\ final_content = H \o OptFooter(names, HtmlFooter(names))
                    /\ final_content # T
                    /\ final_content # T \o PlainFooter(names)
               ELSE final_content = T \o OptFooter(names, PlainFooter(names))

C11_Witness ==
    /\ xpc = "done"
    /\ HasBoth(msg)
    /\ Len(text_content) > 0
    /\ Len(attachments) > 0
    /\ final_content = html_content \o HtmlFooter(attachments)
    /\ Len(Strip(html_content)) > 0

\* C12: the footer is appended exactly when a file name was collected; it
\* is the HTML footer when the body returned is the HTML buffer and the
\* plain-text footer when it is the plain-text buffer; it lists every
\* collected file name; the message made of a plain-text part and the
\* attachment report.pdf ends with the plain-text footer naming report.pdf.
C12_FooterMatchesBody ==
    xpc = "done"
        => LET names == IF msg.multipart THEN NamesOf(msg.parts) ELSE << >>
           IN  /\ attachments = names
               /\ Len(names) = 0 => final_content \in {html_content, text_content}
               /\ Len(names) > 0 =>
                     \/ /\ Len(Strip(html_content)) > 0
                        /\ final_content = html_content \o HtmlFooter(names)
                     \/ /\ Len(Strip(html_content)) = 0
                        /\ final_content = text_content \o PlainFooter(names)
               /\ msg.parts = << Container, PlainPart, ReportPdf >> =>
                     final_content =
                        << "Hi", "\n\n", "----------------", "\n",
                           "[BaoHanFuJian]: ", "report.pdf" >>

C12_Witness ==
    /\ xpc = "done"
    /\ msg.parts = << Container, PlainPart, ReportPdf >>
    /\ attachments = << "report.pdf" >>
    /\ final_content[Len(final_content)] = "report.pdf"

\* C13: across all attempts of a pass, the copy of a junk folder's messages
\* to INBOX (followed by the flagging and the expunge) is run at most once,
\* hence for at most one alias.
C13_OneConsolidationPerPass == hist.copies <= 1

\* C14: when all 3 attempts of the pass failed, fetch_emails returns the
\* empty list and add_record is not called, also when a failed attempt had
\* parsed messages before its exception.
C14_ExhaustedNoRecords ==
    (hist.fetchReturned /\ hist.exhausted) => (ret = << >> /\ addLog = << >>)

JunkStage ==
    {"fe_junk_select", "fe_junk_search", "fe_junk_copy", "fe_junk_store",
     "fe_junk_expunge"}

\* a step of the junk stage stays in the stage or ends it, in the same
\* attempt, on the same session and with no exception pending
StaysInAttempt ==
    pc \in JunkStage
        => /\ pc' \in JunkStage \cup {"fe_cb40"}
           /\ retry' = retry
           /\ mail' = mail
           /\ connects' = connects
           /\ exitKind' = "none"

\* C15: whatever select, search, copy, store or expunge do on any alias
\* (raise, or return a status other than OK), the step stays in the alias
\* scan or ends it, in the same attempt and with no exception pending; after
\* the scan the attempt selects and then searches the inbox (unless the
\* callback of line 295 or the select itself raises).
C15_JunkFailureNeverFatal ==
    /\ [][StaysInAttempt]_vars
    /\ [][pc = "fe_cb40" /\ ~cbMayRaise => pc' = "fe_select_inbox"]_vars
    /\ [][pc = "fe_select_inbox" /\ exitKind' # "exc" => pc' = "fe_search"]_vars
    /\ [](hist.junkFailed
            => \/ pc \in JunkStage \cup {"fe_cb40", "fe_select_inbox", "fe_search"}
               \/ pc = "fe_finally" /\ exitKind = "exc")

C15_Witness ==
    /\ hist.junkFailed
    /\ pc = "fe_search"
    /\ retry = 0
    /\ Len(junk) > 0

KeysOf(records) == {records[k].mail_key : k \in 1 .. Len(records)}

MsgsOf(records) == {records[k].m : k \in 1 .. Len(records)}

\* C16: an exception of the fetch or the parse of one message leaves the
\* loop running: while the batch is walked every identifier so far has been
\* fetched, at the end of the loop every selected identifier has been, and
\* every message that was fetched and parsed has its key in mail_records,
\* the message itself unless another message holds its key; the attempt
\* that ran to its break returns these records.
C16_BatchNeverAborted ==
    /\ [](pc \in {"fe_loop_cb", "fe_fetch"}
            => Len(hist.outcomes) = i /\ i < Len(mail_ids))
    /\ []((pc = "fe_cb90" \/ (pc = "fe_finally" /\ exitKind = "break"))
            => /\ Len(hist.outcomes) = Len(mail_ids)
               /\ \A k \in 1 .. Len(mail_ids) :
                     hist.outcomes[k] = "ok"
                        => LET m == inbox[mail_ids[k]]
                           IN  /\ KeyOf(m) \in KeysOf(mail_records)
                               /\ \/ m \in MsgsOf(mail_records)
                                  \/ \E j \in 1 .. Len(mail_records) :
                                        /\ mail_records[j].mail_key = KeyOf(m)
                                        /\ mail_records[j].m # m)
    /\ [][pc = "fe_fetch" => pc' \in {"fe_loop_cb", "fe_cb90"}]_vars
    /\ [][pc = "fe_finally" /\ exitKind = "break" => ret' = mail_records]_vars

C16_Witness ==
    /\ pc = "fe_finally"
    /\ exitKind = "break"
    /\ hist.outcomes = << "raise", "ok" >>
    /\ Len(mail_records) = 1

\* C17: the identifiers of the batch are processed in the reverse of the
\* order of the search result (as get_messages does), and so, in a first
\* attempt whose fetches all succeeded, the record kept for a key is the
\* message with the highest identifier among those with the key.
C17_NewestFirst ==
    /\ pc = "fe_fetch"
          => ProcessingOrder(mail_ids)[i + 1]
                = GetMessagesOrder(mail_ids, FetchCap)[i + 1]
    /\ (pc = "fe_finally" /\ exitKind = "break" /\ retry = 0
          /\ \A k \in 1 .. Len(hist.outcomes) : hist.outcomes[k] = "ok")
          => \A j \in 1 .. Len(mail_records) :
                \A k \in 1 .. Len(mail_ids) :
                   KeyOf(inbox[mail_ids[k]]) = mail_records[j].mail_key
                      => \E h \in k .. Len(mail_ids) :
                            inbox[mail_ids[h]] = mail_records[j].m

Present ==
    {inbox[k] : k \in 1 .. Len(inbox)} \cup {junk[k].m : k \in 1 .. Len(junk)}

\* C18: a message of the junk folder is flagged \Deleted only when a copy
\* of it is in INBOX, and no step of the pass removes a message from the
\* union of INBOX and the junk folder: what was there before the pass is
\* there after it, whatever failed and however often the pass retried.
C18_NoMessageLost ==
    /\ [](\A k \in 1 .. Len(junk) :
            junk[k].del => \E j \in 1 .. Len(inbox) : inbox[j] = junk[k].m)
    /\ [][Present \subseteq Present']_vars

C18_Witness ==
    /\ hist.consol = "done"
    /\ retry >= 1
    /\ hist.copies >= 2
    /\ junk = << >>

\* C19: update_check_time is called only in a pass in which an attempt of
\* the fetch completed its inbox search and the processing of its batch.
C19_CheckTimeOnlyAfterFetch == checkTimeCalls > 0 => hist.completed

\* C20: once an inbox search has returned a status other than OK, no
\* further session is opened in the pass and fetch_emails returns the empty
\* list.
C20_SearchNoEndsPass ==
    hist.searchNo > 0
        => /\ connects = hist.searchNo
           /\ hist.fetchReturned => ret = << >>

====
